---- MODULE Spec2Model ----
(***************************************************************************)
(* Model of the attendance screen (MarkAttendanceScreen) of the 90-PH app: *)
(* the haversine distance function, the nearest-office resolver, the      *)
(* geofence gate of markAttendance with its confirmation dialogs, and the  *)
(* asynchronous loading of the office list and of the device location;    *)
(* of the form of the book-visit screen (BookVisitScreen); of the loading  *)
(* of the manager dashboard (ManagerHomeTabScreen); and of the scanner of  *)
(* visit requests (VisitRequestQRScanner).                                 *)
(*                                                                         *)
(* JavaScript numbers are modelled as binary floating-point values         *)
(* [m |-> mantissa, e |-> exponent] denoting m * 2^e, with a 24-bit        *)
(* mantissa (2^23 <= |m| < 2^24, or m = 0), so that every intermediate     *)
(* product fits the 32-bit integers of TLC.                                *)
(***************************************************************************)
EXTENDS Integers, Sequences, FiniteSets, Bags, TLC

VARIABLES
  isLoaded,                 \* useUser().isLoaded
  user,                     \* useUser().user
  location,                 \* useState<LocationData | null>
  assignedOffices,          \* useState<OfficeData[]>
  loading,                  \* useState(true)
  marking,                  \* useState(false)
  refreshing,               \* useState(false)
  error,                    \* useState<string | null>
  locationPermissionStatus, \* useState<string>('')
  lastTap,                  \* useState<number>(0)
  tasks,                    \* the calls of initializeData / getLocation in progress (a bag)
  posts,                    \* attendance POST requests in flight
  dialog,                   \* the confirmation Alert on screen, with the closure its button calls
  view,                     \* what the last render produced
  last,                     \* the alert the last step raised, the fix it received
  sentCount,                \* number of attendance requests sent so far
  authEvents,               \* number of changes of the signed-in user so far
  distances,                \* the values of calculateDistance, computed once
  bookVisit,                \* BookVisitScreen: form, plotId, loading, the alert on screen,
                            \* the visit request in flight, the number of requests sent
  dashboard,                \* ManagerHomeTabScreen: loading, refreshing, error, stats, the
                            \* four API calls of loadData, the number of calls of loadData
  scanner                   \* VisitRequestQRScanner in the modal of VisitRequestsScreen:
                            \* scannerRequestId, scanned, the request in flight, the alert,
                            \* the number of scans

vars == <<isLoaded, user, location, assignedOffices, loading, marking, refreshing,
          error, locationPermissionStatus, lastTap, tasks, posts, dialog,
          view, last, sentCount, authEvents, distances, bookVisit, dashboard,
          scanner>>

(***************************************************************************)
(* Floating-point arithmetic. The operations are functions, so that their  *)
(* arguments are values.                                                   *)
(***************************************************************************)
Float == [m : Int, e : Int]

Abs(n) == IF n < 0 THEN -n ELSE n
Sgn(n) == IF n < 0 THEN -1 ELSE IF n = 0 THEN 0 ELSE 1

MantLo == 2^23
MantHi == 2^24

Zero == [m |-> 0, e |-> 0]

\* the value m * 2^e for 0 < m < 2^31, rounded to 24 bits
NormMag[m \in Int, e \in Int] ==
  IF m >= MantHi
  THEN LET k == CHOOSE k \in 1..7 : m \div 2^k >= MantLo /\ m \div 2^k < MantHi
           r == (m + 2^(k - 1)) \div 2^k
       IN IF r = MantHi THEN [m |-> MantLo, e |-> e + k + 1] ELSE [m |-> r, e |-> e + k]
  ELSE IF m < MantLo
  THEN LET k == CHOOSE k \in 1..23 : m * 2^k >= MantLo /\ m * 2^k < MantHi
       IN [m |-> m * 2^k, e |-> e - k]
  ELSE [m |-> m, e |-> e]

Norm[m \in Int, e \in Int] ==
  IF m = 0 THEN Zero
  ELSE [m |-> Sgn(m) * NormMag[Abs(m), e].m, e |-> NormMag[Abs(m), e].e]

FromInt[n \in Int] == Norm[n, 0]
One == FromInt[1]
FNeg[a \in Float] == [m |-> -a.m, e |-> a.e]
FAbs[a \in Float] == [m |-> Abs(a.m), e |-> a.e]
FHalf[a \in Float] == IF a.m = 0 THEN a ELSE [m |-> a.m, e |-> a.e - 1]

\* +Infinity: larger than every finite value under FLt
Infinity == [m |-> MantLo, e |-> 1000]

FMul[a \in Float, b \in Float] ==
  IF a.m = 0 \/ b.m = 0 THEN Zero
  ELSE LET ah == Abs(a.m) \div 4096
           al == Abs(a.m) % 4096
           bh == Abs(b.m) \div 4096
           bl == Abs(b.m) % 4096
       IN Norm[Sgn(a.m) * Sgn(b.m)
                 * (ah * bh * 64 + (ah * bl + al * bh) \div 64 + (al * bl) \div 262144),
               a.e + b.e + 18]

\* a + b for a.e >= b.e, both non-zero
FAddOrdered[a \in Float, b \in Float] ==
  IF a.e - b.e > 30 THEN a
  ELSE Norm[a.m * 64 + Sgn(b.m) * ((Abs(b.m) * 64) \div 2^(a.e - b.e)), a.e - 6]

FAdd[a \in Float, b \in Float] ==
  IF a.m = 0 THEN b
  ELSE IF b.m = 0 THEN a
  ELSE IF a.e >= b.e THEN FAddOrdered[a, b] ELSE FAddOrdered[b, a]

FSub[a \in Float, b \in Float] == FAdd[a, FNeg[b]]

FDiv[a \in Float, b \in Float] ==
  IF a.m = 0 THEN Zero
  ELSE LET ma == Abs(a.m)
           mb == Abs(b.m)
           q0 == ma \div mb
           r0 == ma % mb
           q1 == (r0 * 128) \div mb
           r1 == (r0 * 128) % mb
           q2 == (r1 * 128) \div mb
           r2 == (r1 * 128) % mb
           q3 == (r2 * 128) \div mb
           r3 == (r2 * 128) % mb
           q4 == (r3 * 128) \div mb
       IN Norm[Sgn(a.m) * Sgn(b.m)
                 * ((((q0 * 128 + q1) * 128 + q2) * 128 + q3) * 128 + q4),
               a.e - b.e - 28]

\* a < b
FLt(a, b) ==
  IF Sgn(a.m) # Sgn(b.m) THEN Sgn(a.m) < Sgn(b.m)
  ELSE IF a.m = 0 THEN FALSE
  ELSE IF a.m > 0 THEN a.e < b.e \/ (a.e = b.e /\ a.m < b.m)
  ELSE a.e > b.e \/ (a.e = b.e /\ a.m < b.m)

\* a <= b
FLeq(a, b) == a = b \/ FLt(a, b)

ISqrtBit[n \in Int, bit \in Int, res \in Int] ==
  IF bit = 0 THEN res
  ELSE IF (res + bit) * (res + bit) <= n THEN ISqrtBit[n, bit \div 2, res + bit]
  ELSE ISqrtBit[n, bit \div 2, res]

\* one Newton step towards the square root of a, from s
Newton[a \in Float, s \in Float] == FHalf[FAdd[s, FDiv[a, s]]]

\* Math.sqrt, for a >= 0: an integer square root refined by two Newton steps
FSqrt[a \in Float] ==
  IF a.m = 0 THEN Zero
  ELSE LET k == IF a.e % 2 = 0 THEN 6 ELSE 5
       IN Newton[a, Newton[a, Norm[ISqrtBit[a.m * 2^k, 16384, 0], (a.e - k) \div 2]]]

\* Math.PI rounded to 24 bits
Pi == [m |-> 13176795, e |-> -22]
HalfPi == FHalf[Pi]

\* 1 - x2/(k(k+1)) * (1 - x2/((k+2)(k+3)) * (...)): the Taylor series of sin and cos
Horner[x2 \in Float, k \in Nat, lastK \in Nat] ==
  IF k > lastK THEN One
  ELSE FSub[One, FMul[FDiv[x2, FromInt[k * (k + 1)]], Horner[x2, k + 2, lastK]]]

SinSmall[x \in Float] == FMul[x, Horner[FMul[x, x], 2, 14]]
CosSmall[x \in Float] == Horner[FMul[x, x], 1, 15]

\* Math.sin for |x| <= pi
FSin[x \in Float] ==
  LET r == IF FLt(HalfPi, FAbs[x]) THEN SinSmall[FSub[Pi, FAbs[x]]] ELSE SinSmall[FAbs[x]]
  IN IF x.m < 0 THEN FNeg[r] ELSE r

\* Math.cos for |x| <= pi
FCos[x \in Float] ==
  IF FLt(HalfPi, FAbs[x]) THEN FNeg[CosSmall[FSub[Pi, FAbs[x]]]] ELSE CosSmall[FAbs[x]]

AtanSeries[u \in Float, k \in Nat, lastK \in Nat] ==
  IF k > lastK THEN Zero
  ELSE FSub[FDiv[One, FromInt[k]], FMul[u, AtanSeries[u, k + 2, lastK]]]

\* tan(t/2) from tan(t)
HalveTan[t \in Float] == FDiv[t, FAdd[One, FSqrt[FAdd[One, FMul[t, t]]]]]

\* atan for |t| < 1/4, by its Taylor series
AtanSmall[t \in Float] == FMul[t, AtanSeries[FMul[t, t], 1, 15]]

\* atan for 0 <= t <= 1
FAtan[t \in Float] == FMul[FromInt[4], AtanSmall[HalveTan[HalveTan[t]]]]

\* Math.atan2(y, x) for y >= 0, x >= 0, not both 0
FAtan2[y \in Float, x \in Float] ==
  IF y.m = 0 THEN Zero
  ELSE IF FLeq(y, x) THEN FAtan[FDiv[y, x]]
  ELSE FSub[HalfPi, FAtan[FDiv[x, y]]]

(***************************************************************************)
(* The haversine distance, in metres.                                      *)
(***************************************************************************)
\* (variant: the equatorial radius)
R_Equatorial == FromInt[6378137]

R == FromInt[6371000]

ToRadians[deg \in Float] == FDiv[FMul[deg, Pi], FromInt[180]]

\* a = sin^2(dPhi/2) + cos(phi1) cos(phi2) sin^2(dLambda/2)
HaversineA[phi1 \in Float, phi2 \in Float, sinP \in Float, sinL \in Float] ==
  FAdd[FMul[sinP, sinP], FMul[FMul[FMul[FCos[phi1], FCos[phi2]], sinL], sinL]]

\* c = 2 atan2(sqrt(a), sqrt(1 - a))
HaversineC[a \in Float] == FMul[FromInt[2], FAtan2[FSqrt[a], FSqrt[FSub[One, a]]]]

\* (variant: the latitudes are added)
calculateDistance_LatitudeSum(lat1, lon1, lat2, lon2) ==
  FMul[R, HaversineC[HaversineA[ToRadians[lat1], ToRadians[lat2],
                                FSin[FHalf[ToRadians[FAdd[lat2, lat1]]]],
                                FSin[FHalf[ToRadians[FSub[lon2, lon1]]]]]]]

\* (variant: the cosine of the first latitude is used twice)
calculateDistance_FirstLatitudeTwice(lat1, lon1, lat2, lon2) ==
  FMul[R, HaversineC[HaversineA[ToRadians[lat1], ToRadians[lat1],
                                FSin[FHalf[ToRadians[FSub[lat2, lat1]]]],
                                FSin[FHalf[ToRadians[FSub[lon2, lon1]]]]]]]

calculateDistance(lat1, lon1, lat2, lon2) ==
  FMul[R, HaversineC[HaversineA[ToRadians[lat1], ToRadians[lat2],
                                FSin[FHalf[ToRadians[FSub[lat2, lat1]]]],
                                FSin[FHalf[ToRadians[FSub[lon2, lon1]]]]]]]

(***************************************************************************)
(* Data: coordinates, fixes and offices.                                   *)
(***************************************************************************)
Null      == [null |-> TRUE]       \* null / undefined of an object-valued field
NoUser    == Null
NoError   == "null"                \* error === null

ACCEPTABLE_GPS_ACCURACY_THRESHOLD == 1500
DefaultRequiredDistance == 1000
DebounceMs == 1500
MountTime  == DebounceMs           \* Date.now() when the screen is mounted, at the least

AccuracyThreshold == FromInt[ACCEPTABLE_GPS_ACCURACY_THRESHOLD]
DefaultThreshold  == FromInt[DefaultRequiredDistance]

\* coordinates lie on a grid of 1/128 degree (about 869 m of latitude), which is
\* exact in binary floating point
Grid(n) == Norm[n, -7]
LatA == Grid(1664)                 \* 13 degrees north
LonA == Grid(10240)                \* 80 degrees east
LatB == Grid(1665)

Fix(lat, lng, accuracy) == [lat |-> lat, lng |-> lng, accuracy |-> accuracy]

\* the fixes the positioning service may report: an accuracy at the threshold,
\* one above it, and one without accuracy
Fixes == { Fix(LatA, LonA, AccuracyThreshold),
           Fix(LatA, LonA, FromInt[2000]),
           Fix(LatB, LonA, Null) }

Office(id, lat, lon, requiredDistance) ==
  [id |-> id, latitude |-> lat, longitude |-> lon, requiredDistance |-> requiredDistance]

\* one grid step south of A; its threshold is exactly its distance from A
OffS  == Office("S", Grid(1663), LonA, calculateDistance(LatA, LonA, Grid(1663), LonA))
\* one grid step north of A (at B), threshold 500 m
OffN  == Office("N", LatB, LonA, FromInt[500])
\* two grid steps north of A, no threshold of its own
OffN2 == Office("N2", Grid(1666), LonA, Null)
\* one grid step east of A, threshold 0
OffE  == Office("E", LatA, Grid(10241), Zero)

OfficeUniverse == {OffS, OffN, OffN2, OffE}

\* calculateDistance over the coordinates of the model, computed once
DistanceTable ==
  { [lat1 |-> f.lat, lon1 |-> f.lng, lat2 |-> o.latitude, lon2 |-> o.longitude,
     distance |-> calculateDistance(f.lat, f.lng, o.latitude, o.longitude)] :
    f \in Fixes, o \in OfficeUniverse }

\* the call calculateDistance(location.lat, location.lng, office.latitude, office.longitude):
\* calculateDistance is pure, so its value is looked up in the table that Init
\* computed with it
Distance(lat1, lon1, lat2, lon2) ==
  (CHOOSE d \in distances :
     d.lat1 = lat1 /\ d.lon1 = lon1 /\ d.lat2 = lat2 /\ d.lon2 = lon2).distance

MaxOffices == 3

RECURSIVE SeqsUpTo(_, _)
SeqsUpTo(S, n) ==
  IF n = 0 THEN {<< >>}
  ELSE LET shorter == SeqsUpTo(S, n - 1)
       IN shorter \cup {Append(q, x) : q \in {p \in shorter : Len(p) = n - 1}, x \in S}

(***************************************************************************)
(* The nearest-office resolver.                                            *)
(***************************************************************************)
\* (variant: the comparison the other way round)
Closer_Reversed(distance, minDistance) == FLt(minDistance, distance)

\* (variant: a later office at the same distance replaces the candidate)
Closer_NonStrict(distance, minDistance) == FLeq(distance, minDistance)

\* if (distance < minDistance)
Closer(distance, minDistance) == FLt(distance, minDistance)

RECURSIVE ScanOffices(_, _, _, _, _)
ScanOffices(loc, offices, i, minDistance, nearestOffice) ==
  IF i > Len(offices) THEN [distance |-> minDistance, office |-> nearestOffice]
  ELSE LET office   == offices[i]
           distance == Distance(loc.lat, loc.lng, office.latitude, office.longitude)
       IN IF Closer(distance, minDistance)
          THEN ScanOffices(loc, offices, i + 1, distance, office)
          ELSE ScanOffices(loc, offices, i + 1, minDistance, nearestOffice)

\* (variant: minDistance starts at 0 and the empty list is not set apart)
getDistanceToNearestOffice_FromZero(loc, offices) ==
  IF loc = Null
  THEN [distance |-> Infinity, office |-> Null]
  ELSE ScanOffices(loc, offices, 1, Zero, Null)

\* if (!location || !assignedOffices.length) return { distance: Infinity, office: null }
getDistanceToNearestOffice(loc, offices) ==
  IF loc = Null \/ Len(offices) = 0
  THEN [distance |-> Infinity, office |-> Null]
  ELSE ScanOffices(loc, offices, 1, Infinity, Null)

\* x || 1000 for an optional number x: undefined and 0 are falsy
OrDefault(x) == IF x = Null \/ x = Zero THEN DefaultThreshold ELSE x

\* nearestOffice?.requiredDistance || 1000, in markAttendance
requiredGeofenceDistance(nearestOffice) ==
  IF nearestOffice = Null THEN DefaultThreshold
  ELSE OrDefault(nearestOffice.requiredDistance)

\* (variant: the gate is exclusive at the threshold)
OutOfRange_AtThreshold(distance, required) == FLeq(required, distance)

\* (variant: the comparison the other way round)
OutOfRange_Inverted(distance, required) == FLt(distance, required)

\* distance > requiredGeofenceDistance, in markAttendance
OutOfRange(distance, required) == FLt(required, distance)

\* (variant: fixes up to twice the threshold are kept)
LowAccuracy_DoubledThreshold(accuracy) ==
  /\ accuracy # Null
  /\ accuracy # Zero
  /\ FLt(FMul[FromInt[2], AccuracyThreshold], accuracy)

\* location.accuracy && location.accuracy > ACCEPTABLE_GPS_ACCURACY_THRESHOLD
LowAccuracy(accuracy) ==
  /\ accuracy # Null
  /\ accuracy # Zero
  /\ FLt(AccuracyThreshold, accuracy)

(***************************************************************************)
(* Rendering.                                                              *)
(***************************************************************************)
\* (variant: the geofence card does not ask for a location)
RenderMain_CardWithoutLocation(loc, offices, mk) ==
  LET r        == getDistanceToNearestOffice(loc, offices)
      required == IF r.office = Null THEN DefaultThreshold
                  ELSE OrDefault(r.office.requiredDistance)
  IN [screen                   |-> "main",
      distance                 |-> r.distance,
      nearestOffice            |-> r.office,
      requiredGeofenceDistance |-> required,
      isWithinRange            |-> FLeq(r.distance, required),
      cardShown                |-> Len(offices) > 0,
      disabled                 |-> mk \/ loc = Null \/ Len(offices) = 0]

\* (variant: the resolver's inputs depend on marking)
RenderMain_ResolvedWhileIdle(loc, offices, mk) ==
  LET r        == getDistanceToNearestOffice(IF mk THEN Null ELSE loc, offices)
      required == IF r.office = Null THEN DefaultThreshold
                  ELSE OrDefault(r.office.requiredDistance)
  IN [screen                   |-> "main",
      distance                 |-> r.distance,
      nearestOffice            |-> r.office,
      requiredGeofenceDistance |-> required,
      isWithinRange            |-> FLeq(r.distance, required),
      cardShown                |-> loc # Null /\ Len(offices) > 0,
      disabled                 |-> mk \/ loc = Null \/ Len(offices) = 0]

\* (variant: the buttons stay enabled while marking)
RenderMain_EnabledWhileMarking(loc, offices, mk) ==
  LET r        == getDistanceToNearestOffice(loc, offices)
      required == IF r.office = Null THEN DefaultThreshold
                  ELSE OrDefault(r.office.requiredDistance)
  IN [screen                   |-> "main",
      distance                 |-> r.distance,
      nearestOffice            |-> r.office,
      requiredGeofenceDistance |-> required,
      isWithinRange            |-> FLeq(r.distance, required),
      cardShown                |-> loc # Null /\ Len(offices) > 0,
      disabled                 |-> loc = Null \/ Len(offices) = 0]

\* the main content: the geofence card and the two buttons
RenderMain(loc, offices, mk) ==
  LET r        == getDistanceToNearestOffice(loc, offices)
      required == IF r.office = Null THEN DefaultThreshold
                  ELSE OrDefault(r.office.requiredDistance)
  IN [screen                   |-> "main",
      distance                 |-> r.distance,
      nearestOffice            |-> r.office,
      requiredGeofenceDistance |-> required,
      isWithinRange            |-> FLeq(r.distance, required),
      cardShown                |-> loc # Null /\ Len(offices) > 0,
      disabled                 |-> mk \/ loc = Null \/ Len(offices) = 0]

Render ==
  IF ~isLoaded \/ loading THEN [screen |-> "loading"]
  ELSE IF user = NoUser THEN [screen |-> "signin"]
  ELSE IF error # NoError /\ ~loading THEN [screen |-> "error"]
  ELSE RenderMain(location, assignedOffices, marking)

\* every step ends with a render; the values of calculateDistance and the
\* other screens do not change
Rendered ==
  /\ UNCHANGED <<distances, bookVisit, dashboard, scanner>>
  /\ view' = Render'

(***************************************************************************)
(* Bounds of the model and the environment's answers.                      *)
(***************************************************************************)
MaxTasks      == 2     \* concurrent initializeData / getLocation calls
MaxSent       == 1     \* attendance requests sent in one behaviour
MaxAuthEvents == 2     \* sign-outs and sign-ins after authentication loaded
MaxClock      == 2     \* last clock reading, in debounce intervals

TheUser == [id |-> "user_1"]

\* the office lists the assigned-offices endpoint may answer with
ServerOfficeLists == { << >>, <<OffS, OffN>>, <<OffE>> }

\* the messages fetchAssignedOffices reports for a failed request
FetchFailures ==
  { "No offices assigned to your account.",         \* status 404
    "Server error. Please try again later." }       \* status >= 500

FetchOutcomes ==
  [ok : {TRUE}, data : ServerOfficeLists] \cup [ok : {FALSE}, message : FetchFailures]

PermissionOutcomes == {"granted", "denied"}

PostOutcomes == {"ok", "rejected", "invalid", "network"}

Remove(q, i) == SubSeq(q, 1, i - 1) \o SubSeq(q, i + 1, Len(q))

Quiet      == [alert |-> ""]
Alerted(a) == [alert |-> a]

One_(t) == SetToBag({t})

\* what a handler created by the current render has captured
Closure == [user |-> user, location |-> location, assignedOffices |-> assignedOffices]

(***************************************************************************)
(* initializeData, fetchAssignedOffices, getLocation.                      *)
(***************************************************************************)
\* A task is one call of initializeData (fetch # "none") or one call of
\* getLocation from a button (fetch = "none"); fetch and loc say where
\* fetchAssignedOffices and getLocation of that call stand.
TaskDone(t) == t.loc = "done" /\ t.fetch \in {"done", "none"}

\* The synchronous part of initializeData: setLoading(true), setError(null),
\* fetchAssignedOffices() up to its fetch (without a user id it sets
\* 'Authentication required.' and returns), then getLocation() up to its
\* first await, whose setError(null) is the last write to error.
StartInitializeData(u, refresh) ==
  /\ BagCardinality(tasks) < MaxTasks
  /\ loading' = TRUE
  /\ error' = NoError
  /\ refreshing' = (refresh \/ refreshing)
  /\ tasks' = tasks (+) One_([fetch   |-> IF u = NoUser THEN "done" ELSE "pending",
                              loc     |-> "perm",
                              refresh |-> refresh])

\* Task i moves to t; the call that is finished runs its finally block
\* (setLoading(false)) and, called by onRefresh, setRefreshing(false).
Settle(i, t) ==
  /\ tasks' = IF TaskDone(t) THEN tasks (-) One_(i) ELSE (tasks (-) One_(i)) (+) One_(t)
  /\ loading' = IF TaskDone(t) /\ t.fetch # "none" THEN FALSE ELSE loading
  /\ refreshing' = IF TaskDone(t) /\ t.refresh THEN FALSE ELSE refreshing

\* (variant: an empty list is stored like any other)
FetchAnswer_EmptyListStored(i, res) ==
  /\ IF ~res.ok
     THEN /\ error' = res.message
          /\ assignedOffices' = << >>
     ELSE /\ assignedOffices' = res.data
          /\ UNCHANGED error
  /\ Settle(i, [i EXCEPT !.fetch = "done"])

\* (variant: a list of offices clears the error)
FetchAnswer_SuccessClearsError(i, res) ==
  /\ IF ~res.ok
     THEN /\ error' = res.message
          /\ assignedOffices' = << >>
     ELSE IF Len(res.data) = 0
     THEN /\ error' = "No offices assigned to your account."
          /\ assignedOffices' = << >>
     ELSE /\ assignedOffices' = res.data
          /\ error' = NoError
  /\ Settle(i, [i EXCEPT !.fetch = "done"])

\* fetchAssignedOffices after the answer res
FetchAnswer(i, res) ==
  /\ IF ~res.ok
     THEN /\ error' = res.message
          /\ assignedOffices' = << >>
     ELSE IF Len(res.data) = 0
     THEN /\ error' = "No offices assigned to your account."
          /\ assignedOffices' = << >>
     ELSE /\ assignedOffices' = res.data
          /\ UNCHANGED error
  /\ Settle(i, [i EXCEPT !.fetch = "done"])

\* the assigned-offices request of task i is answered
FetchResponse(i) ==
  /\ i.fetch = "pending"
  /\ \E res \in FetchOutcomes : FetchAnswer(i, res)
  /\ last' = Quiet
  /\ UNCHANGED <<isLoaded, user, location, marking, locationPermissionStatus, lastTap,
                 posts, dialog, sentCount, authEvents>>
  /\ Rendered

\* (variant: the catch block keeps the stored location)
LocationFails_KeepsLocation(i) ==
  /\ error' = "Unable to get location. Please check your GPS settings."
  /\ UNCHANGED location
  /\ Settle(i, [i EXCEPT !.loc = "done"])

\* getLocation's catch block
LocationFails(i) ==
  /\ error' = "Unable to get location. Please check your GPS settings."
  /\ location' = Null
  /\ Settle(i, [i EXCEPT !.loc = "done"])

\* Location.getForegroundPermissionsAsync() of task i returns
LocPermission(i) ==
  /\ i.loc = "perm"
  /\ \E status \in PermissionOutcomes :
       /\ locationPermissionStatus' = status
       /\ Settle(i, [i EXCEPT !.loc = IF status = "granted" THEN "pos" ELSE "req"])
       /\ UNCHANGED <<error, location>>
  /\ last' = Quiet
  /\ UNCHANGED <<isLoaded, user, assignedOffices, marking, lastTap, posts, dialog,
                 sentCount, authEvents>>
  /\ Rendered

\* Location.requestForegroundPermissionsAsync() of task i returns
LocRequest(i) ==
  /\ i.loc = "req"
  /\ \E status \in PermissionOutcomes :
       /\ locationPermissionStatus' = status
       /\ IF status = "granted"
          THEN /\ Settle(i, [i EXCEPT !.loc = "pos"])
               /\ UNCHANGED <<error, location>>
               /\ last' = Quiet
          ELSE /\ error' = "Location permission denied."
               /\ location' = Null
               /\ Settle(i, [i EXCEPT !.loc = "done"])
               /\ last' = Alerted("Location Permission Required")
  /\ UNCHANGED <<isLoaded, user, assignedOffices, marking, lastTap, posts, dialog,
                 sentCount, authEvents>>
  /\ Rendered

\* Location.getCurrentPositionAsync() of task i returns a fix, or throws
LocPosition(i) ==
  /\ i.loc = "pos"
  /\ \/ \E fix \in Fixes :
          /\ last' = Quiet
          /\ IF LowAccuracy(fix.accuracy)
             THEN /\ error' = "Low GPS accuracy. Please move to an open area."
                  /\ location' = Null
             ELSE /\ location' = fix
                  /\ UNCHANGED error
          /\ Settle(i, [i EXCEPT !.loc = "done"])
     \/ LocationFails(i) /\ last' = Quiet
  /\ UNCHANGED <<isLoaded, user, assignedOffices, marking, locationPermissionStatus,
                 lastTap, posts, dialog, sentCount, authEvents>>
  /\ Rendered

(***************************************************************************)
(* Marking attendance.                                                     *)
(***************************************************************************)
RequestBody(c, attendanceType) ==
  [clerkId        |-> c.user.id,
   latitude       |-> c.location.lat,
   longitude      |-> c.location.lng,
   accuracy       |-> c.location.accuracy,
   attendanceType |-> attendanceType]

\* if (!user || !location || !assignedOffices.length)
Refused(c) == c.user = NoUser \/ c.location = Null \/ Len(c.assignedOffices) = 0

\* proceedWithAttendance of the render that captured c, up to its fetch:
\* writes marking, posts, sentCount and last. Past its guard it calls
\* getDistanceToNearestOffice() for the text of the 'Success' alert.
proceedWithAttendance(c, attendanceType) ==
  IF Refused(c)
  THEN /\ last' = Alerted("Error: Unable to mark attendance. Please try again.")
       /\ UNCHANGED <<marking, posts, sentCount>>
  ELSE /\ sentCount < MaxSent
       /\ marking' = TRUE
       /\ posts' = Append(posts, RequestBody(c, attendanceType))
       /\ sentCount' = sentCount + 1
       /\ last' = Quiet

\* (variant: no finally block, marking is cleared only after an answer)
PostResponse_NoFinally(j) ==
  /\ \E outcome \in PostOutcomes :
       /\ last' = Alerted(CASE outcome = "ok"       -> "Success"
                            [] outcome = "rejected" -> "Failed"
                            [] OTHER                -> "Network Error")
       /\ marking' = IF outcome \in {"ok", "rejected"} THEN FALSE ELSE marking
  /\ posts' = Remove(posts, j)
  /\ UNCHANGED <<isLoaded, user, location, assignedOffices, loading, refreshing, error,
                 locationPermissionStatus, lastTap, tasks, dialog, sentCount, authEvents>>
  /\ Rendered

\* the attendance request j is answered (or fails): an alert, then the
\* finally block's setMarking(false)
PostResponse(j) ==
  /\ \E outcome \in PostOutcomes :
       last' = Alerted(CASE outcome = "ok"       -> "Success"
                         [] outcome = "rejected" -> "Failed"
                         [] OTHER                -> "Network Error")
  /\ posts' = Remove(posts, j)
  /\ marking' = FALSE
  /\ UNCHANGED <<isLoaded, user, location, assignedOffices, loading, refreshing, error,
                 locationPermissionStatus, lastTap, tasks, dialog, sentCount, authEvents>>
  /\ Rendered

\* (variant: a call exactly 1500 ms later is dropped too)
Debounced_Inclusive(t, tap) == t - tap <= DebounceMs

\* if (now - lastTap < 1500) return
Debounced(t, tap) == t - tap < DebounceMs

\* the branch markAttendance takes once it has a user and a location
GeofenceBranch(c) ==
  IF Len(c.assignedOffices) = 0 THEN "No Offices"
  ELSE IF LowAccuracy(c.location.accuracy) THEN "Low GPS Accuracy"
  ELSE LET r == getDistanceToNearestOffice(c.location, c.assignedOffices)
       IN IF r.office = Null THEN "Error: Unable to find nearest office."
          ELSE IF OutOfRange(r.distance, requiredGeofenceDistance(r.office))
          THEN "Out of Range"
          ELSE "proceed"

\* (variant: markAttendance does not look at the location before it goes on)
MarkBranch_NoLocationCheck(c, t, tap) ==
  IF Debounced(t, tap) THEN "debounced"
  ELSE IF c.user = NoUser THEN "Error: Please sign in to continue."
  ELSE IF c.location = Null THEN "proceed"
  ELSE GeofenceBranch(c)

\* the branch markAttendance takes, for the values c its render captured
MarkBranch(c, t, tap) ==
  IF Debounced(t, tap) THEN "debounced"
  ELSE IF c.user = NoUser THEN "Error: Please sign in to continue."
  ELSE IF c.location = Null THEN "Location Required"
  ELSE GeofenceBranch(c)

\* const now = Date.now(): a reading t not before the previous one
markAttendanceAt(t) ==
  LET c      == Closure
      branch == MarkBranch(c, t, lastTap)
  IN /\ dialog = Null
     /\ lastTap' = IF branch = "debounced" THEN lastTap ELSE t
     /\ dialog' = IF branch \in {"Low GPS Accuracy", "Out of Range"}
                  THEN [kind |-> branch, closure |-> c]
                  ELSE dialog
     /\ IF branch = "proceed"
        THEN proceedWithAttendance(c, "REGULAR")
        ELSE /\ last' = Alerted(IF branch = "debounced" THEN "" ELSE branch)
             /\ UNCHANGED <<marking, posts, sentCount>>
     /\ UNCHANGED <<isLoaded, user, location, assignedOffices, loading, refreshing, error,
                    locationPermissionStatus, tasks, authEvents>>
     /\ Rendered

\* Date.now() at a tap: just within the debounce interval of the last accepted
\* tap, or just past it; never before the screen was mounted
ClockReadings ==
  {t \in {lastTap + DebounceMs - 1, lastTap + DebounceMs} :
     t >= MountTime /\ t <= MaxClock * DebounceMs}

markAttendance == \E t \in ClockReadings : markAttendanceAt(t)

\* (variant: the on-duty request passes the geofence gate of markAttendance)
markOnDutyAttendance_Gated ==
  /\ dialog = Null
  /\ IF MarkBranch(Closure, lastTap + DebounceMs, lastTap) = "proceed"
     THEN proceedWithAttendance(Closure, "ON_DUTY")
     ELSE /\ last' = Alerted(MarkBranch(Closure, lastTap + DebounceMs, lastTap))
          /\ UNCHANGED <<marking, posts, sentCount>>
  /\ UNCHANGED <<isLoaded, user, location, assignedOffices, loading, refreshing, error,
                 locationPermissionStatus, lastTap, tasks, dialog, authEvents>>
  /\ Rendered

markOnDutyAttendance ==
  /\ dialog = Null
  /\ proceedWithAttendance(Closure, "ON_DUTY")
  /\ UNCHANGED <<isLoaded, user, location, assignedOffices, loading, refreshing, error,
                 locationPermissionStatus, lastTap, tasks, dialog, authEvents>>
  /\ Rendered

\* the 'Continue' / 'Mark Anyway' button: () => proceedWithAttendance(), of the
\* render that raised the dialog
DialogConfirm ==
  /\ dialog # Null
  /\ proceedWithAttendance(dialog.closure, "REGULAR")
  /\ dialog' = Null
  /\ UNCHANGED <<isLoaded, user, location, assignedOffices, loading, refreshing, error,
                 locationPermissionStatus, lastTap, tasks, authEvents>>
  /\ Rendered

\* the 'Cancel' button
DialogCancel ==
  /\ dialog # Null
  /\ dialog' = Null
  /\ last' = Quiet
  /\ UNCHANGED <<isLoaded, user, location, assignedOffices, loading, marking, refreshing,
                 error, locationPermissionStatus, lastTap, tasks, posts, sentCount, authEvents>>
  /\ Rendered

(***************************************************************************)
(* The user interface and the environment.                                 *)
(***************************************************************************)
\* the two buttons exist on the main content and are enabled unless
\* marking || !location || assignedOffices.length === 0
ButtonEnabled == view.screen = "main" /\ ~view.disabled

PressMarkAttendance == ButtonEnabled /\ markAttendance
PressMarkOnDuty     == ButtonEnabled /\ markOnDutyAttendance

\* pull to refresh on the main content, 'Try Again' on the error screen
onRefresh ==
  /\ view.screen \in {"main", "error"}
  /\ dialog = Null
  /\ StartInitializeData(user, TRUE)
  /\ last' = Quiet
  /\ UNCHANGED <<isLoaded, user, location, assignedOffices, marking,
                 locationPermissionStatus, lastTap, posts, dialog, sentCount, authEvents>>
  /\ Rendered

\* 'Refresh' / 'Enable Location' on the main content: getLocation up to its first await
PressGetLocation ==
  /\ view.screen = "main"
  /\ dialog = Null
  /\ BagCardinality(tasks) < MaxTasks
  /\ error' = NoError
  /\ tasks' = tasks (+) One_([fetch |-> "none", loc |-> "perm", refresh |-> FALSE])
  /\ last' = Quiet
  /\ UNCHANGED <<isLoaded, user, location, assignedOffices, loading, marking, refreshing,
                 locationPermissionStatus, lastTap, posts, dialog, sentCount, authEvents>>
  /\ Rendered

\* useEffect(() => { if (isLoaded && user) initializeData() }, [isLoaded, user, initializeData])
\* after the authentication state became (TRUE, u)
AuthEffect(u) ==
  IF u # NoUser
  THEN StartInitializeData(u, FALSE)
  ELSE UNCHANGED <<loading, error, refreshing, tasks>>

\* the authentication provider finishes loading, with or without a signed-in user
AuthLoaded ==
  /\ ~isLoaded
  /\ isLoaded' = TRUE
  /\ \E u \in {NoUser, TheUser} : user' = u /\ AuthEffect(u)
  /\ last' = Quiet
  /\ UNCHANGED <<location, assignedOffices, marking, locationPermissionStatus, lastTap,
                 posts, dialog, sentCount, authEvents>>
  /\ Rendered

\* the user signs out, or signs in
AuthChange ==
  /\ isLoaded
  /\ authEvents < MaxAuthEvents
  /\ authEvents' = authEvents + 1
  /\ user' = IF user = NoUser THEN TheUser ELSE NoUser
  /\ AuthEffect(user')
  /\ last' = Quiet
  /\ UNCHANGED <<isLoaded, location, assignedOffices, marking, locationPermissionStatus,
                 lastTap, posts, dialog, sentCount>>
  /\ Rendered

(***************************************************************************)
(* Specifications.                                                         *)
(***************************************************************************)
\* The screen is mounted while the authentication provider loads. Date.now()
\* is far above the debounce interval, so the first tap is never debounced.
Init ==
  /\ isLoaded = FALSE
  /\ user = NoUser
  /\ location = Null
  /\ assignedOffices = << >>
  /\ loading = TRUE
  /\ marking = FALSE
  /\ refreshing = FALSE
  /\ error = NoError
  /\ locationPermissionStatus = ""
  /\ lastTap = 0
  /\ tasks = EmptyBag
  /\ posts = << >>
  /\ dialog = Null
  /\ view = [screen |-> "loading"]
  /\ last = Quiet
  /\ sentCount = 0
  /\ authEvents = 0
  /\ distances = DistanceTable
  /\ bookVisit = Null
  /\ dashboard = Null
  /\ scanner = Null

Async ==
  \/ \E i \in BagToSet(tasks) : FetchResponse(i)
  \/ \E i \in BagToSet(tasks) : LocPermission(i)
  \/ \E i \in BagToSet(tasks) : LocRequest(i)
  \/ \E i \in BagToSet(tasks) : LocPosition(i)
  \/ \E j \in 1..Len(posts) : PostResponse(j)

\* the screen driven through its user interface
Next ==
  \/ AuthLoaded
  \/ AuthChange
  \/ onRefresh
  \/ PressGetLocation
  \/ PressMarkAttendance
  \/ PressMarkOnDuty
  \/ DialogConfirm
  \/ DialogCancel
  \/ Async

Spec == Init /\ [][Next]_vars

\* the handlers of the current render called whatever the screen shows
NextHandlers ==
  \/ Next
  \/ markAttendance
  \/ markOnDutyAttendance

SpecHandlers == Init /\ [][NextHandlers]_vars

\* The resolver and the gate on every office list of at most MaxOffices
\* offices: the first initializeData of a signed-in user has received its
\* office list (an empty one is reported as an error) and the permission,
\* and waits for the position.
InitEval ==
  /\ isLoaded = TRUE
  /\ user = TheUser
  /\ location = Null
  /\ assignedOffices \in SeqsUpTo(OfficeUniverse, MaxOffices)
  /\ loading = TRUE
  /\ marking = FALSE
  /\ refreshing = FALSE
  /\ error = IF Len(assignedOffices) = 0
             THEN "No offices assigned to your account." ELSE NoError
  /\ locationPermissionStatus = "granted"
  /\ lastTap = 0
  /\ tasks = One_([fetch |-> "done", loc |-> "pos", refresh |-> FALSE])
  /\ posts = << >>
  /\ dialog = Null
  /\ view = [screen |-> "loading"]
  /\ last = Quiet
  /\ sentCount = 0
  /\ authEvents = MaxAuthEvents
  /\ distances = DistanceTable
  /\ bookVisit = Null
  /\ dashboard = Null
  /\ scanner = Null

NextEval ==
  \/ \E i \in BagToSet(tasks) : LocPosition(i)
  \/ PressMarkAttendance
  \/ PressMarkOnDuty
  \/ DialogConfirm
  \/ DialogCancel
  \/ \E j \in 1..Len(posts) : PostResponse(j)

SpecEval == InitEval /\ [][NextEval]_vars

(***************************************************************************)
(* The handlers called on every office list, before and after the position *)
(* arrives; every attendance request is eventually answered or fails.      *)
(***************************************************************************)
NextProceed ==
  \/ NextEval
  \/ markAttendance
  \/ markOnDutyAttendance

\* fetch() settles: it resolves with a response or rejects
PostSettles == WF_vars(\E j \in 1..Len(posts) : PostResponse(j))

SpecProceed == InitEval /\ [][NextProceed]_vars /\ PostSettles

(***************************************************************************)
(* One call of initializeData, from the state an earlier call left: its    *)
(* two requests are answered in any order.                                 *)
(***************************************************************************)
\* the state after setLoading(true), setError(null) and the start of
\* fetchAssignedOffices and getLocation
InitInitialize ==
  /\ isLoaded = TRUE
  /\ user = TheUser
  /\ location \in {Null} \cup {fix \in Fixes : ~LowAccuracy(fix.accuracy)}
  /\ assignedOffices \in ServerOfficeLists
  /\ loading = TRUE
  /\ marking = FALSE
  /\ refreshing \in BOOLEAN
  /\ error = NoError
  /\ locationPermissionStatus \in {""} \cup PermissionOutcomes
  /\ lastTap = 0
  /\ tasks = One_([fetch |-> "pending", loc |-> "perm", refresh |-> refreshing])
  /\ posts = << >>
  /\ dialog = Null
  /\ view = [screen |-> "loading"]
  /\ last = Quiet
  /\ sentCount = 0
  /\ authEvents = MaxAuthEvents
  /\ distances = DistanceTable
  /\ bookVisit = Null
  /\ dashboard = Null
  /\ scanner = Null

NextInitialize ==
  \E i \in BagToSet(tasks) :
    \/ FetchResponse(i)
    \/ LocPermission(i)
    \/ LocRequest(i)
    \/ LocPosition(i)

SpecInitialize == InitInitialize /\ [][NextInitialize]_vars

(***************************************************************************)
(* calculateDistance on its own: Init draws the two coordinates of a call  *)
(* and of the call with the coordinates exchanged, Calculate evaluates     *)
(* both.                                                                   *)
(***************************************************************************)
\* (latitude, longitude) in degrees
Coordinates ==
  { <<Zero, Zero>>, <<Zero, One>>, <<One, One>>, <<LatA, LonA>>, <<LatB, LonA>>,
    <<LatA, FNeg[LonA]>>, <<FNeg[LatA], LonA>>, <<FromInt[-33], FromInt[-70]>>,
    <<Grid(6592), Grid(-16)>>, <<FromInt[60], FromInt[179]>>,
    <<FromInt[-45], FromInt[-179]>> }

\* a call of calculateDistance and the value it returned, Null before it returns
Call(p, q, d) ==
  [lat1 |-> p[1], lon1 |-> p[2], lat2 |-> q[1], lon2 |-> q[2], distance |-> d]

\* MarkAttendanceScreen before its first effect has run
NotMounted ==
  /\ isLoaded = FALSE
  /\ user = NoUser
  /\ location = Null
  /\ assignedOffices = << >>
  /\ loading = TRUE
  /\ marking = FALSE
  /\ refreshing = FALSE
  /\ error = NoError
  /\ locationPermissionStatus = ""
  /\ lastTap = 0
  /\ tasks = EmptyBag
  /\ posts = << >>
  /\ dialog = Null
  /\ view = [screen |-> "loading"]
  /\ last = Quiet
  /\ sentCount = 0
  /\ authEvents = 0

InitDistance ==
  /\ NotMounted
  /\ bookVisit = Null
  /\ dashboard = Null
  /\ scanner = Null
  /\ \E p \in Coordinates, q \in Coordinates :
       distances = {Call(p, q, Null), Call(q, p, Null)}

Calculate ==
  /\ \E d \in distances : d.distance = Null
  /\ distances' = { [d EXCEPT !.distance =
                       calculateDistance(d.lat1, d.lon1, d.lat2, d.lon2)] :
                    d \in distances }
  /\ UNCHANGED <<isLoaded, user, location, assignedOffices, loading, marking,
                 refreshing, error, locationPermissionStatus, lastTap, tasks,
                 posts, dialog, view, last, sentCount, authEvents, bookVisit,
                 dashboard, scanner>>

NextDistance == Calculate

SpecDistance == InitDistance /\ [][NextDistance]_vars

(***************************************************************************)
(* The book-visit screen. Strings are sequences of one-character strings.  *)
(* The date and the time of the visit are left out.                        *)
(***************************************************************************)
Digit == {"0", "1", "2", "3", "4", "5", "6", "7", "8", "9"}
Lower == <<"a", "b", "c", "d", "e", "f", "g", "h", "i", "j", "k", "l", "m",
           "n", "o", "p", "q", "r", "s", "t", "u", "v", "w", "x", "y", "z">>
Upper == <<"A", "B", "C", "D", "E", "F", "G", "H", "I", "J", "K", "L", "M",
           "N", "O", "P", "Q", "R", "S", "T", "U", "V", "W", "X", "Y", "Z">>
Letter == {Lower[i] : i \in 1..26} \cup {Upper[i] : i \in 1..26}
Alnum == Letter \cup Digit
Whitespace == {" ", "\t", "\n"}

\* String.prototype.trim
Trim(s) ==
  LET kept == {i \in 1..Len(s) : s[i] \notin Whitespace}
  IN IF kept = {} THEN << >>
     ELSE SubSeq(s, CHOOSE i \in kept : \A k \in kept : i <= k,
                    CHOOSE i \in kept : \A k \in kept : i >= k)

\* String.prototype.toLowerCase, on ASCII
ToLowerCase(s) ==
  [i \in 1..Len(s) |->
     IF \E k \in 1..26 : Upper[k] = s[i]
     THEN Lower[CHOOSE k \in 1..26 : Upper[k] = s[i]]
     ELSE s[i]]

IsDigit(c) == c \in Digit

\* phone.replace(/\D/g, '')
StripNonDigits(s) == SelectSeq(s, IsDigit)

\* the characters emailRegex allows before the @ (but the backquote, which
\* no text of the model holds)
LocalChar ==
  Alnum \cup {".", "!", "#", "$", "%", "&", "'", "*", "+", "/", "=", "?", "^",
              "_", "{", "|", "}", "~", "-"}

\* a domain: labels of 1 to 63 letters, digits and hyphens that begin and
\* end with a letter or a digit, separated by dots
DomainOk(d) ==
  /\ Len(d) >= 1
  /\ \A i \in 1..Len(d) : d[i] \in Alnum \cup {"-", "."}
  /\ d[1] \in Alnum
  /\ d[Len(d)] \in Alnum
  /\ \A i \in 2..(Len(d) - 1) : d[i] = "." => (d[i - 1] \in Alnum /\ d[i + 1] \in Alnum)
  /\ \A i \in 1..(Len(d) - 63) : \E k \in i..(i + 63) : d[k] = "."

\* emailRegex.test(s)
EmailRegexTest(s) ==
  \E at \in 2..(Len(s) - 1) :
    /\ s[at] = "@"
    /\ \A i \in 1..(at - 1) : s[i] \in LocalChar
    /\ DomainOk(SubSeq(s, at + 1, Len(s)))

\* useLocalSearchParams().plotId: undefined, a string or an array of strings
PlotIds ==
  { [kind |-> "undefined"],
    [kind |-> "string", value |-> << >>],
    [kind |-> "string", value |-> <<"p", "7">>],
    [kind |-> "array", value |-> << <<"p", "7">>, <<"p", "8">> >>] }

\* !plotId
PlotIdMissing(p) == p.kind = "undefined" \/ (p.kind = "string" /\ Len(p.value) = 0)

NoAlert == [title |-> "", message |-> ""]
ValidationError(message) == [title |-> "Validation Error", message |-> message]

\* (variant: 10 to 15 digits are accepted, as the message says)
validateForm_TenToFifteen(form, plotId) ==
  IF Len(Trim(form.name)) = 0 THEN ValidationError("Please enter your full name")
  ELSE IF Len(Trim(form.email)) = 0 THEN ValidationError("Please enter your email address")
  ELSE IF Len(Trim(form.phone)) = 0 THEN ValidationError("Please enter your phone number")
  ELSE IF ~EmailRegexTest(form.email)
  THEN ValidationError("Please enter a valid email address")
  ELSE IF Len(StripNonDigits(form.phone)) < 10 \/ Len(StripNonDigits(form.phone)) > 15
  THEN ValidationError("Phone number must be between 10 and 15 digits")
  ELSE IF PlotIdMissing(plotId) THEN [title |-> "Error", message |-> "Plot ID is missing"]
  ELSE NoAlert

\* validateForm: the alert it raises, NoAlert when it returns true
validateForm(form, plotId) ==
  IF Len(Trim(form.name)) = 0 THEN ValidationError("Please enter your full name")
  ELSE IF Len(Trim(form.email)) = 0 THEN ValidationError("Please enter your email address")
  ELSE IF Len(Trim(form.phone)) = 0 THEN ValidationError("Please enter your phone number")
  ELSE IF ~EmailRegexTest(form.email)
  THEN ValidationError("Please enter a valid email address")
  ELSE IF Len(StripNonDigits(form.phone)) < 10 \/ Len(StripNonDigits(form.phone)) > 10
  THEN ValidationError("Phone number must be between 10 and 15 digits")
  ELSE IF ~( /\ Len(StripNonDigits(form.phone)) \in 10..15
             /\ \A i \in 1..Len(StripNonDigits(form.phone)) :
                  StripNonDigits(form.phone)[i] \in Digit )
  THEN ValidationError("Phone number should contain digits only")
  ELSE IF PlotIdMissing(plotId) THEN [title |-> "Error", message |-> "Plot ID is missing"]
  ELSE NoAlert

\* the texts entered in the three fields; the phone field has maxLength 15
NameInputs == { << >>, <<" ">>, <<" ", "A", "s", "h", "a">> }

EmailInputs ==
  { << >>,
    <<"A", "s", "h", "a", "@", "x", "-", "y", ".", "i", "n">>,
    <<"a", "@", "b">>,
    <<"a", "s", "h", "a", "@", "x", ".">>,
    <<"a", " ", "b", "@", "x", ".", "i", "n">> }

PhoneInputs ==
  { << >>,
    <<" ", " ">>,
    <<"9", "8", "7", "6", "5", "4", "3", "2", "1">>,
    <<"9", "8", "7", "6", "5", "4", "3", "2", "1", "0">>,
    <<"9", "8", "7", "6", "5", "-", "4", "3", "2", "1", "0">>,
    <<"(", "9", "8", "7", ")", " ", "6", "5", "4", "-", "3", "2", "1", "0">>,
    <<"9", "8", "7", "6", "5", " ", "4", "3", "2", "1">>,
    <<"0", "9", "8", "7", "6", "5", "4", "3", "2", "1", "0">>,
    <<"+", "9", "1", "9", "8", "7", "6", "5", "4", "3", "2", "1", "0">>,
    <<"9", "1", "9", "8", "7", "6", "5", "4", "3", "2", "1", "0", "1", "2", "3">> }

MaxVisitRequests == 2

EmptyForm == [name |-> << >>, email |-> << >>, phone |-> << >>]

\* the state of BookVisitScreen when it is opened for plotId
BookVisitOpened(plotId) ==
  [open    |-> TRUE,
   form    |-> EmptyForm,
   plotId  |-> plotId,
   loading |-> FALSE,
   alert   |-> NoAlert,
   pending |-> Null,
   sent    |-> 0]

\* the state of MarkAttendanceScreen, which the other screens do not touch
attendance ==
  <<isLoaded, user, location, assignedOffices, loading, marking, refreshing, error,
    locationPermissionStatus, lastTap, tasks, posts, dialog, view, last, sentCount,
    authEvents, distances>>

handleInputChange(field, value) ==
  /\ bookVisit.open
  /\ ~bookVisit.loading
  /\ bookVisit' = [bookVisit EXCEPT !.form[field] = value]
  /\ UNCHANGED <<attendance, dashboard, scanner>>

ChangeName == \E value \in NameInputs : handleInputChange("name", value)
ChangeEmail == \E value \in EmailInputs : handleInputChange("email", value)
ChangePhone == \E value \in PhoneInputs : handleInputChange("phone", value)

\* the body of the visit request
VisitData(form, plotId) ==
  [name   |-> Trim(form.name),
   email  |-> ToLowerCase(Trim(form.email)),
   phone  |-> Trim(form.phone),
   plotId |-> IF plotId.kind = "array" THEN plotId.value[1] ELSE plotId.value]

\* the Submit button, enabled while loading is false
handleSubmit ==
  /\ bookVisit.open
  /\ ~bookVisit.loading
  /\ IF validateForm(bookVisit.form, bookVisit.plotId) # NoAlert
     THEN bookVisit' = [bookVisit EXCEPT
                          !.alert = validateForm(bookVisit.form, bookVisit.plotId)]
     ELSE /\ bookVisit.sent < MaxVisitRequests
          /\ bookVisit' = [bookVisit EXCEPT
                             !.loading = TRUE,
                             !.alert   = NoAlert,
                             !.pending = VisitData(bookVisit.form, bookVisit.plotId),
                             !.sent    = @ + 1]
  /\ UNCHANGED <<attendance, dashboard, scanner>>

\* submitVisitRequest resolves, or rejects
VisitResponse ==
  /\ bookVisit.open
  /\ bookVisit.pending # Null
  /\ \E ok \in BOOLEAN :
       bookVisit' = [bookVisit EXCEPT
                       !.pending = Null,
                       !.loading = FALSE,
                       !.alert   = IF ok THEN [title |-> "Success!", message |-> ""]
                                   ELSE [title |-> "Booking Failed", message |-> ""]]
  /\ UNCHANGED <<attendance, dashboard, scanner>>

\* the OK button of the 'Success!' alert: the form is reset and the screen left
SuccessOK ==
  /\ bookVisit.open
  /\ bookVisit.alert.title = "Success!"
  /\ bookVisit' = [bookVisit EXCEPT !.form = EmptyForm, !.alert = NoAlert, !.open = FALSE]
  /\ UNCHANGED <<attendance, dashboard, scanner>>

InitVisit ==
  /\ NotMounted
  /\ distances = {}
  /\ dashboard = Null
  /\ scanner = Null
  /\ \E plotId \in PlotIds : bookVisit = BookVisitOpened(plotId)

NextVisit ==
  \/ ChangeName
  \/ ChangeEmail
  \/ ChangePhone
  \/ handleSubmit
  \/ VisitResponse
  \/ SuccessOK

SpecVisit == InitVisit /\ [][NextVisit]_vars

(***************************************************************************)
(* The manager dashboard: loadData and its four API calls. A rating        *)
(* average is held in tenths.                                              *)
(***************************************************************************)
\* the entries of Promise.allSettled's result, and a call not yet settled; a
\* fulfilled value is an array of items or something else
Pending == [status |-> "pending"]
Rejected == [status |-> "rejected"]
Fulfilled(array, items) == [status |-> "fulfilled", array |-> array, items |-> items]

\* what getProjects, getAllPlots, getVisitRequests and getUserFeedback may
\* settle with; createdAt is "recent" within the last seven days, "" absent;
\* isNumber is typeof rating === 'number'
ApiAnswers ==
  LET Plot(status, createdAt) == [status |-> status, createdAt |-> createdAt]
      Feedback(rating, isNumber) == [rating |-> rating, isNumber |-> isNumber]
  IN << { Rejected,
          Fulfilled(TRUE, <<[id |-> "p1"], [id |-> "p2"]>>),
          Fulfilled(FALSE, << >>) },
        { Rejected,
          Fulfilled(TRUE, <<Plot("AVAILABLE", "old"), Plot("SOLD", "recent"),
                            Plot("ADVANCE", "recent"), Plot("SOLD", "old"),
                            Plot("SOLD", "")>>),
          Fulfilled(TRUE, <<Plot("AVAILABLE", "old"), Null>>),
          Fulfilled(FALSE, << >>) },
        { Rejected,
          Fulfilled(TRUE, <<[status |-> "PENDING"], [status |-> "COMPLETED"],
                            [status |-> "PENDING"]>>) },
        { Rejected,
          Fulfilled(TRUE, <<Feedback(5, TRUE), Feedback(4, TRUE), Feedback(4, TRUE),
                            Feedback(4, TRUE)>>),
          Fulfilled(TRUE, <<Feedback(5, TRUE), Feedback(0, FALSE)>>),
          Fulfilled(FALSE, << >>) } >>

NoStats ==
  [projects |-> 0, plots |-> 0, availablePlots |-> 0, visitRequests |-> 0,
   pendingVisits |-> 0, avgRating |-> 0, recentSales |-> 0]

\* results[k].status === 'fulfilled' ? results[k].value : [], then
\* Array.isArray(...) ? ... : []
SafeData(result) ==
  IF result.status = "fulfilled" /\ result.array THEN result.items ELSE << >>

\* status 'ADVANCE' becomes 'BOOKED'
MapPlots(items) ==
  [i \in 1..Len(items) |->
     [items[i] EXCEPT !.status = IF @ = "ADVANCE" THEN "BOOKED" ELSE @]]

RECURSIVE RatingSum(_)
RatingSum(items) ==
  IF Len(items) = 0 THEN 0
  ELSE (IF Head(items).isNumber THEN Head(items).rating ELSE 0) + RatingSum(Tail(items))

\* parseFloat(avgRating.toFixed(1)), in tenths: the nearest tenth, a tie upwards
AvgRating(items) ==
  IF Len(items) = 0 THEN 0
  ELSE (20 * RatingSum(items) + Len(items)) \div (2 * Len(items))

\* the argument of setStats
Stats(results) ==
  LET plots == MapPlots(SafeData(results[2]))
      IsAvailable(p) == p.status = "AVAILABLE"
      IsPendingVisit(v) == v.status = "PENDING"
      IsRecentSale(p) == p.status = "SOLD" /\ p.createdAt = "recent"
  IN [projects       |-> Len(SafeData(results[1])),
      plots          |-> Len(plots),
      availablePlots |-> Len(SelectSeq(plots, IsAvailable)),
      visitRequests  |-> Len(SafeData(results[3])),
      pendingVisits  |-> Len(SelectSeq(SafeData(results[3]), IsPendingVisit)),
      avgRating      |-> AvgRating(SafeData(results[4])),
      recentSales    |-> Len(SelectSeq(plots, IsRecentSale))]

\* (variant: Promise.all, one rejection fails the whole load)
Settled_AllOrNothing(d, results) ==
  IF \E k \in 1..4 : results[k].status = "rejected"
  THEN [d EXCEPT !.calls = results, !.loading = FALSE, !.refreshing = FALSE,
                 !.error = "Failed to load dashboard data. Please check your network connection.",
                 !.stats = NoStats]
  ELSE IF \E i \in 1..Len(SafeData(results[2])) : SafeData(results[2])[i] = Null
  THEN [d EXCEPT !.calls = results, !.loading = FALSE, !.refreshing = FALSE,
                 !.error = "Cannot read property 'status' of null",
                 !.stats = NoStats]
  ELSE [d EXCEPT !.calls = results, !.loading = FALSE, !.refreshing = FALSE,
                 !.stats = Stats(results)]

\* loadData after await Promise.allSettled: setStats, or the catch block
\* (results[1].value.map reads p.status of a null item), and the finally block
Settled(d, results) ==
  IF \E i \in 1..Len(SafeData(results[2])) : SafeData(results[2])[i] = Null
  THEN [d EXCEPT !.calls = results, !.loading = FALSE, !.refreshing = FALSE,
                 !.error = "Cannot read property 'status' of null",
                 !.stats = NoStats]
  ELSE [d EXCEPT !.calls = results, !.loading = FALSE, !.refreshing = FALSE,
                 !.stats = Stats(results)]

MaxLoads == 2

\* the four calls of loadData are in flight: setError(null), setLoading(true)
Loading(d, refresh) ==
  [d EXCEPT !.error = NoError, !.loading = TRUE,
            !.refreshing = (refresh \/ @),
            !.calls = <<Pending, Pending, Pending, Pending>>,
            !.loads = @ + 1]

\* call k of Promise.allSettled settles; the last one resumes loadData
ApiSettles(k) ==
  /\ dashboard.calls[k] = Pending
  /\ \E answer \in ApiAnswers[k] :
       LET results == [dashboard.calls EXCEPT ![k] = answer]
       IN dashboard' = IF \E j \in 1..4 : results[j] = Pending
                       THEN [dashboard EXCEPT !.calls = results]
                       ELSE Settled(dashboard, results)
  /\ UNCHANGED <<attendance, bookVisit, scanner>>

\* pull to refresh, on the content shown while loading is false
DashboardRefresh ==
  /\ ~dashboard.loading
  /\ dashboard.loads < MaxLoads
  /\ dashboard' = Loading(dashboard, TRUE)
  /\ UNCHANGED <<attendance, bookVisit, scanner>>

\* the Retry button of the error alert, of the error banner and of the
\* empty state
DashboardRetry ==
  /\ ~dashboard.loading
  /\ \/ dashboard.error # NoError
     \/ /\ dashboard.stats.projects = 0
        /\ dashboard.stats.plots = 0
        /\ dashboard.stats.visitRequests = 0
  /\ dashboard.loads < MaxLoads
  /\ dashboard' = Loading(dashboard, FALSE)
  /\ UNCHANGED <<attendance, bookVisit, scanner>>

\* the screen of a signed-in manager, once its effect has called loadData
InitDashboard ==
  /\ NotMounted
  /\ distances = {}
  /\ bookVisit = Null
  /\ scanner = Null
  /\ dashboard = [loading    |-> TRUE,
                  refreshing |-> FALSE,
                  error      |-> NoError,
                  stats      |-> NoStats,
                  calls      |-> <<Pending, Pending, Pending, Pending>>,
                  loads      |-> 1]

NextDashboard ==
  \/ \E k \in 1..4 : ApiSettles(k)
  \/ DashboardRefresh
  \/ DashboardRetry

SpecDashboard == InitDashboard /\ [][NextDashboard]_vars

(***************************************************************************)
(* The scanner of visit requests: VisitRequestQRScanner in the modal that  *)
(* handleOpenScanner of VisitRequestsScreen opens. Texts are tuples of     *)
(* characters.                                                             *)
(***************************************************************************)
\* JSON.parse: [ok |-> FALSE] where it throws. Values carry their type; an
\* object is the sequence of its members as written. Numbers are integers
\* (no fraction or exponent is drawn), escapes are the two-character ones.
JSONParse(s) ==
  LET n == Len(s)
      Fail == [ok |-> FALSE]
      Ok(value, next) == [ok |-> TRUE, value |-> value, next |-> next]
      Ws == {" ", "\t", "\n", "\r"}
      Digits == <<"0", "1", "2", "3", "4", "5", "6", "7", "8", "9">>
      IsDigitAt(i) == i <= n /\ \E d \in 1..10 : Digits[d] = s[i]
      DigitValue(c) == (CHOOSE d \in 1..10 : Digits[d] = c) - 1
      Escapes == [c \in {"\"", "\\", "/", "n", "t", "r"} |->
                    CASE c = "n" -> "\n" [] c = "t" -> "\t" [] c = "r" -> "\r"
                      [] OTHER -> c]
      RECURSIVE Skip(_)
      Skip(i) == IF i <= n /\ s[i] \in Ws THEN Skip(i + 1) ELSE i
      Word(i, word, value) ==
        IF i + Len(word) - 1 <= n /\ SubSeq(s, i, i + Len(word) - 1) = word
        THEN Ok(value, i + Len(word)) ELSE Fail
      RECURSIVE Integer(_, _)
      Integer(i, acc) == IF IsDigitAt(i) THEN Integer(i + 1, 10 * acc + DigitValue(s[i]))
                     ELSE Ok(acc, i)
      Number(i) ==
        LET negative == s[i] = "-"
            j == IF negative THEN i + 1 ELSE i
            digits == IF j <= n /\ s[j] = "0" THEN Ok(0, j + 1) ELSE Integer(j, 0)
        IN IF ~IsDigitAt(j) THEN Fail
           ELSE Ok([type |-> "number",
                    n |-> IF negative THEN 0 - digits.value ELSE digits.value],
                   digits.next)
      RECURSIVE Chars(_, _)
      Chars(i, acc) ==
        IF i > n THEN Fail
        ELSE IF s[i] = "\"" THEN Ok(acc, i + 1)
        ELSE IF s[i] = "\\"
             THEN IF i + 1 <= n /\ s[i + 1] \in DOMAIN Escapes
                  THEN Chars(i + 2, Append(acc, Escapes[s[i + 1]]))
                  ELSE Fail
        ELSE IF s[i] \in {"\n", "\t", "\r"} THEN Fail
        ELSE Chars(i + 1, Append(acc, s[i]))
      RECURSIVE Value(_), Members(_, _), Elements(_, _)
      Value(i0) ==
        LET i == Skip(i0)
        IN IF i > n THEN Fail
           ELSE IF s[i] = "{"
                THEN IF Skip(i + 1) <= n /\ s[Skip(i + 1)] = "}"
                     THEN Ok([type |-> "object", members |-> << >>], Skip(i + 1) + 1)
                     ELSE Members(i + 1, << >>)
           ELSE IF s[i] = "["
                THEN IF Skip(i + 1) <= n /\ s[Skip(i + 1)] = "]"
                     THEN Ok([type |-> "array", elements |-> << >>], Skip(i + 1) + 1)
                     ELSE Elements(i + 1, << >>)
           ELSE IF s[i] = "\""
                THEN LET r == Chars(i + 1, << >>)
                     IN IF r.ok THEN Ok([type |-> "string", chars |-> r.value], r.next)
                        ELSE Fail
           ELSE IF s[i] = "t" THEN Word(i, <<"t", "r", "u", "e">>,
                                        [type |-> "boolean", b |-> TRUE])
           ELSE IF s[i] = "f" THEN Word(i, <<"f", "a", "l", "s", "e">>,
                                        [type |-> "boolean", b |-> FALSE])
           ELSE IF s[i] = "n" THEN Word(i, <<"n", "u", "l", "l">>, [type |-> "null"])
           ELSE IF s[i] = "-" \/ IsDigitAt(i) THEN Number(i)
           ELSE Fail
      Members(i0, acc) ==
        LET i == Skip(i0)
            key == IF i <= n /\ s[i] = "\"" THEN Chars(i + 1, << >>) ELSE Fail
            colon == IF key.ok THEN Skip(key.next) ELSE 0
            v == IF key.ok /\ colon <= n /\ s[colon] = ":" THEN Value(colon + 1) ELSE Fail
            end == IF v.ok THEN Skip(v.next) ELSE 0
            members == Append(acc, [key |-> key.value, value |-> v.value])
        IN IF ~v.ok \/ end > n THEN Fail
           ELSE IF s[end] = "," THEN Members(end + 1, members)
           ELSE IF s[end] = "}" THEN Ok([type |-> "object", members |-> members], end + 1)
           ELSE Fail
      Elements(i0, acc) ==
        LET v == Value(i0)
            end == IF v.ok THEN Skip(v.next) ELSE 0
            elements == Append(acc, v.value)
        IN IF ~v.ok \/ end > n THEN Fail
           ELSE IF s[end] = "," THEN Elements(end + 1, elements)
           ELSE IF s[end] = "]" THEN Ok([type |-> "array", elements |-> elements], end + 1)
           ELSE Fail
      top == Value(1)
  IN IF top.ok /\ Skip(top.next) = n + 1 THEN [ok |-> TRUE, value |-> top.value]
     ELSE Fail

\* what the camera may read from a QR code
Payloads ==
  { <<"v", "r", "1">>,
    <<"v", "r", "2">>,
    <<"{", "\"", "i", "d", "\"", ":", "\"", "v", "r", "1", "\"", "}">>,
    <<"{", "\"", "i", "d", "\"", ":", "\"", "v", "r", "2", "\"", "}">>,
    <<"{", "\"", "i", "d", "\"", ":", "4", "2", "}">>,
    <<"{", "\"", "i", "d", "\"", ":", "-", "7", "}">>,
    <<"{", "\"", "i", "d", "\"", ":", "t", "r", "u", "e", "}">>,
    <<"{", "\"", "i", "d", "\"", ":", "0", "}">>,
    <<"{", "\"", "i", "d", "\"", ":", "\"", "\"", "}">>,
    <<"{", "\"", "i", "d", "\"", ":", "n", "u", "l", "l", "}">>,
    <<"{", "\"", "i", "d", "\"", ":", "f", "a", "l", "s", "e", "}">>,
    <<"{", "\"", "v", "i", "s", "i", "t", "\"", ":", "\"", "v", "r", "1", "\"", "}">>,
    <<"{", "\"", "I", "D", "\"", ":", "\"", "v", "r", "1", "\"", "}">>,
    <<"{", "}">>,
    <<"n", "u", "l", "l">>,
    <<"4", "2">>,
    <<"\"", "v", "r", "1", "\"">>,
    <<"[", "{", "\"", "i", "d", "\"", ":", "\"", "v", "r", "1", "\"", "}", "]">>,
    <<"{", "\"", "i", "d", "\"", ":", "\"", "v", "r", "1", "\"">>,
    <<"{", "i", "d", ":", "\"", "v", "r", "1", "\"", "}">>,
    <<"{", "\"", "i", "d", "\"", ":", "\"", "v", "r", "1", "\"", "}", "x">>,
    <<" ", "{", "\"", "i", "d", "\"", " ", ":", " ", "\"", "v", "r", "1", "\"", "}", "\n">>,
    <<"{", "\"", "i", "d", "\"", ":", "\"", "v", "r", "1", "\"", ",", "\"", "i", "d", "\"", ":", "\"", "v", "r", "2", "\"", "}">>,
    <<"{", "\"", "n", "a", "m", "e", "\"", ":", "\"", "x", "\"", ",", "\"", "i", "d", "\"", ":", "\"", "v", "r", "2", "\"", "}">>,
    <<"{", "\"", "i", "d", "\"", ":", "{", "\"", "n", "\"", ":", "1", "}", "}">>,
    <<"{", "\"", "i", "d", "\"", ":", "[", "1", ",", "2", "]", "}">>,
    <<"{", "\"", "i", "d", "\"", ":", "\"", "a", "/", "b", "\"", "}">>,
    <<"{", "\"", "i", "d", "\"", ":", "\"", "a", "\\", "\"", "b", "\"", "}">> }

\* (variant: parsed.id is taken whenever the payload is a JSON object with an
\* id member that is a text or a number, truthy or not)
visitRequestId_AnyId(data) ==
  LET RECURSIVE Decimal(_)
      Decimal(k) == (IF k >= 10 THEN Decimal(k \div 10) ELSE << >>)
                    \o <<(<<"0", "1", "2", "3", "4", "5", "6", "7", "8", "9">>)[(k % 10) + 1]>>
      Pick(ids) ==
        IF Len(ids) > 0 /\ ids[Len(ids)].value.type = "string"
        THEN ids[Len(ids)].value.chars
        ELSE IF Len(ids) > 0 /\ ids[Len(ids)].value.type = "number"
                /\ ids[Len(ids)].value.n >= 0
        THEN Decimal(ids[Len(ids)].value.n)
        ELSE data
      Id(parsed) ==
        Pick(IF parsed.ok /\ parsed.value.type = "object"
             THEN SelectSeq(parsed.value.members, LAMBDA m : m.key = <<"i", "d">>)
             ELSE << >>)
  IN Id(JSONParse(data))

\* handleBarCodeScanned up to the URL: the id that the template literal puts
\* into it, parsed.id converted to text, or the scanned text
visitRequestId(data) ==
  LET Undefined == [type |-> "undefined"]
      Truthy(v) == CASE v.type \in {"undefined", "null"} -> FALSE
                     [] v.type = "boolean" -> v.b
                     [] v.type = "number" -> v.n # 0
                     [] v.type = "string" -> Len(v.chars) > 0
                     [] OTHER -> TRUE
      \* the member written last wins
      Last(found) == IF Len(found) = 0 THEN Undefined ELSE found[Len(found)].value
      Get(v, key) ==
        Last(IF v.type = "object"
             THEN SelectSeq(v.members, LAMBDA m : m.key = key) ELSE << >>)
      RECURSIVE Decimal(_)
      Decimal(k) == (IF k >= 10 THEN Decimal(k \div 10) ELSE << >>)
                    \o <<(<<"0", "1", "2", "3", "4", "5", "6", "7", "8", "9">>)[(k % 10) + 1]>>
      RECURSIVE TemplateText(_), Join(_)
      TemplateText(v) ==
        CASE v.type = "string" -> v.chars
          [] v.type = "number" -> IF v.n < 0 THEN <<"-">> \o Decimal(0 - v.n) ELSE Decimal(v.n)
          [] v.type = "boolean" -> IF v.b THEN <<"t", "r", "u", "e">>
                                   ELSE <<"f", "a", "l", "s", "e">>
          [] v.type = "null" -> <<"n", "u", "l", "l">>
          [] v.type = "array" -> Join(v.elements)
          [] OTHER -> <<"[", "o", "b", "j", "e", "c", "t", " ", "O", "b", "j", "e", "c", "t", "]">>
      Join(elements) ==
        IF Len(elements) = 0 THEN << >>
        ELSE (IF Head(elements).type = "null" THEN << >> ELSE TemplateText(Head(elements)))
             \o (IF Len(elements) > 1 THEN <<",">> \o Join(Tail(elements)) ELSE << >>)
      Pick(id) == IF Truthy(id) THEN TemplateText(id) ELSE data
      Id(parsed) == Pick(IF parsed.ok /\ Truthy(parsed.value)
                         THEN Get(parsed.value, <<"i", "d">>) ELSE Undefined)
  IN Id(JSONParse(data))

MaxScans == 2

\* the camera reads a code while onBarcodeScanned is set: setScanned(true)
\* and the PATCH request
handleBarCodeScanned(data) ==
  /\ ~scanner.scanned
  /\ Len(scanner.sent) < MaxScans
  /\ scanner' =
       [scanner EXCEPT
          !.scanned = TRUE,
          !.sent = Append(@, [data   |-> data,
                              method |-> "PATCH",
                              url    |-> <<"h", "t", "t", "p", "s", ":", "/", "/", "9", "0", "-", "d", "p", "h", ".", "v", "e", "r", "c", "e", "l", ".", "a", "p", "p">>
                                         \o <<"/", "a", "p", "i", "/", "v", "i", "s", "i", "t", "-", "r", "e", "q", "u", "e", "s", "t", "s", "/">>
                                         \o visitRequestId(data)
                                         \o <<"/", "c", "o", "m", "p", "l", "e", "t", "e">>,
                              state  |-> "pending"])]
  /\ UNCHANGED <<attendance, bookVisit, dashboard>>

\* fetch and res.text() settle: the Success or the Error alert
CompleteResponse(i) ==
  /\ scanner.sent[i].state = "pending"
  /\ \E res \in { [ok |-> TRUE, text |-> << >>],
                  [ok |-> FALSE, text |-> << >>],
                  [ok |-> FALSE, text |-> <<"N", "o", "t", " ", "F", "o", "u", "n", "d">>],
                  [ok |-> FALSE, text |-> <<"{", "\"", "m", "e", "s", "s", "a", "g", "e", "\"", ":", "\"", "V", "i", "s", "i", "t", " ", "r", "e", "q", "u", "e", "s", "t", " ", "n", "o", "t", " ", "f", "o", "u", "n", "d", "\"", "}">>],
                  [ok |-> FALSE, text |-> <<"n", "u", "l", "l">>],
                  [failed |-> TRUE] } :
       LET Last(found) ==
             IF Len(found) > 0 /\ found[Len(found)].value.type = "string"
                /\ Len(found[Len(found)].value.chars) > 0
             THEN found[Len(found)].value.chars
             ELSE res.text
           \* json.message || text, or text where JSON.parse throws
           Message(json) ==
             Last(IF json.ok /\ json.value.type = "object"
                  THEN SelectSeq(json.value.members,
                                 LAMBDA m : m.key = <<"m", "e", "s", "s", "a", "g", "e">>)
                  ELSE << >>)
           Error(message) ==
             IF Len(message) > 0 THEN [title |-> "Error", message |-> message]
             ELSE [title |-> "Error", message |-> "Failed to mark visit as completed"]
           alert == IF "failed" \in DOMAIN res
                    THEN [title |-> "Error", message |-> "Network request failed"]
                    ELSE IF res.ok
                    THEN [title |-> "Success", message |-> "Visit marked as completed!"]
                    ELSE Error(Message(JSONParse(res.text)))
       IN scanner' = [scanner EXCEPT !.sent[i].state = "settled", !.alert = alert]
  /\ UNCHANGED <<attendance, bookVisit, dashboard>>

\* Tap to Scan Again: setScanned(false)
ScanAgain ==
  /\ scanner.scanned
  /\ scanner' = [scanner EXCEPT !.scanned = FALSE]
  /\ UNCHANGED <<attendance, bookVisit, dashboard>>

\* the modal after handleOpenScanner(requestId), the camera permission granted
InitScanner ==
  /\ NotMounted
  /\ distances = {}
  /\ bookVisit = Null
  /\ dashboard = Null
  /\ \E requestId \in { <<"v", "r", "1">>, <<"v", "r", "2">> } :
       scanner = [scannerRequestId |-> requestId,
                  scanned          |-> FALSE,
                  sent             |-> << >>,
                  alert            |-> NoAlert]

NextScanner ==
  \/ \E data \in Payloads : handleBarCodeScanned(data)
  \/ \E i \in 1..Len(scanner.sent) : CompleteResponse(i)
  \/ ScanAgain

SpecScanner == InitScanner /\ [][NextScanner]_vars

(***************************************************************************)
(* Properties.                                                             *)
(***************************************************************************)
\* the screen shows its main content, for a stored location and a non-empty list
HasInputs == view.screen = "main" /\ location # Null /\ Len(assignedOffices) > 0

\* calculateDistance from the stored location to an office
DistanceTo(office) ==
  Distance(location.lat, location.lng, office.latitude, office.longitude)

\* this step is a call of markAttendance that passed the debounce check
AcceptedTap == lastTap' # lastTap

\* C1: with a stored location and a non-empty assignedOffices,
\* getDistanceToNearestOffice returns an office of the list whose distance to
\* the location is at most that of every office of the list, and the distance
\* it returns is the distance to the office it returns.
C1_NearestOfficeIsMinimum ==
  HasInputs =>
    /\ \E i \in 1..Len(assignedOffices) : view.nearestOffice = assignedOffices[i]
    /\ view.distance = DistanceTo(view.nearestOffice)
    /\ \A i \in 1..Len(assignedOffices) :
         FLeq(view.distance, DistanceTo(assignedOffices[i]))

\* offices at 1737 m, 846 m and 869 m of the location: the second is returned
C1_Witness ==
  /\ HasInputs
  /\ location.lat = LatA
  /\ assignedOffices = <<OffN2, OffE, OffS>>
  /\ view.nearestOffice = OffE
  /\ FLt(view.distance, DistanceTo(OffS))

\* C2: the in-range decision is inclusive, isWithinRange is true iff the
\* distance is at most the threshold, and markAttendance takes its
\* 'Out of Range' branch iff the distance is above the threshold: the status
\* displayed and the gate applied on a tap agree.
C2_InRangeInclusive ==
  /\ [](HasInputs =>
          /\ (view.isWithinRange <=> ~FLt(view.requiredGeofenceDistance, view.distance))
          /\ (view.distance = view.requiredGeofenceDistance => view.isWithinRange))
  /\ [][(HasInputs /\ AcceptedTap) =>
          ((dialog' # Null /\ dialog'.kind = "Out of Range") <=> ~view.isWithinRange)]_vars

\* at a distance equal to the threshold, a tap has sent the request directly
C2_Witness ==
  /\ HasInputs
  /\ view.distance = view.requiredGeofenceDistance
  /\ view.distance # Zero
  /\ view.isWithinRange
  /\ dialog = Null
  /\ Len(posts) = 1
  /\ posts[1].attendanceType = "REGULAR"

\* C3: when the distance to the nearest office is above its threshold, an
\* accepted tap on Mark Attendance sends nothing and opens the
\* Cancel / Mark Anyway dialog; while that dialog is open a request is sent
\* iff the user chooses Mark Anyway, and Cancel leaves the screen state as it is.
C3_OutOfRangeOverride ==
  /\ [][(HasInputs /\ ~view.isWithinRange /\ AcceptedTap) =>
          /\ dialog' = [kind |-> "Out of Range", closure |-> Closure]
          /\ sentCount' = sentCount
          /\ posts' = posts]_vars
  /\ [][(dialog # Null /\ dialog.kind = "Out of Range") =>
          /\ (sentCount' # sentCount) <=> DialogConfirm
          /\ DialogCancel =>
               UNCHANGED <<isLoaded, user, location, assignedOffices, loading, marking,
                           refreshing, error, locationPermissionStatus, lastTap, tasks,
                           posts, view, sentCount, authEvents>>]_vars

\* out of range, the dialog is closed and the REGULAR request is in flight
C3_Witness ==
  /\ HasInputs
  /\ ~view.isWithinRange
  /\ dialog = Null
  /\ Len(posts) = 1
  /\ posts[1].attendanceType = "REGULAR"
  /\ posts[1].latitude = location.lat

LowAccuracyMessage == "Low GPS accuracy. Please move to an open area."

\* C4: when the positioning service has reported a fix whose accuracy radius
\* is above 1500 m and the signed-in user then attempts to mark attendance,
\* the 'Low GPS Accuracy' warning is raised.
C4_LowAccuracyWarning ==
  [][(error = LowAccuracyMessage /\ location = Null /\ user # NoUser /\ AcceptedTap) =>
       (dialog' # Null /\ dialog'.kind = "Low GPS Accuracy")]_vars

\* after such a fix the attempt was answered with 'Location Required'
C4_Witness ==
  /\ error = LowAccuracyMessage
  /\ location = Null
  /\ last.alert = "Location Required"

\* C5: with an empty assignedOffices, getDistanceToNearestOffice returns the
\* sentinel, distance +Infinity and no office.
C5_EmptyListSentinel ==
  (view.screen = "main" /\ Len(assignedOffices) = 0) =>
    (view.distance = Infinity /\ view.nearestOffice = Null)

\* the main content rendered for a stored location and an empty list
C5_Witness ==
  /\ view.screen = "main"
  /\ location # Null
  /\ Len(assignedOffices) = 0
  /\ view.distance = Infinity

\* C6: while assignedOffices is empty no attendance request is sent, be it
\* from markAttendance, from markOnDutyAttendance or from the Continue /
\* Mark Anyway button of a dialog.
C6_NoOfficesNoRequest ==
  [][Len(assignedOffices) = 0 => sentCount' = sentCount]_vars

\* C7: markAttendance called by a signed-in user without a stored location,
\* and past the debounce check, reports 'Location Required': it sends
\* nothing, opens no dialog and changes no state but lastTap.
C7_LocationRequired ==
  [][(user # NoUser /\ location = Null /\ AcceptedTap) =>
       /\ last'.alert = "Location Required"
       /\ UNCHANGED <<isLoaded, user, location, assignedOffices, loading, marking,
                      refreshing, error, locationPermissionStatus, tasks, posts,
                      dialog, view, sentCount, authEvents>>]_vars

\* the report has been made, with offices assigned
C7_Witness ==
  /\ user # NoUser
  /\ location = Null
  /\ Len(assignedOffices) > 0
  /\ lastTap > 0
  /\ last.alert = "Location Required"

\* C8: of the offices at the minimum distance, getDistanceToNearestOffice
\* returns the one that comes first in assignedOffices.
C8_FirstSeenWins ==
  HasInputs =>
    /\ \E i \in 1..Len(assignedOffices) : DistanceTo(assignedOffices[i]) = view.distance
    /\ \A i \in 1..Len(assignedOffices) :
         ( /\ DistanceTo(assignedOffices[i]) = view.distance
           /\ \A j \in 1..(i - 1) : DistanceTo(assignedOffices[j]) # view.distance )
         => view.nearestOffice = assignedOffices[i]

\* two different offices at the same distance: the first of the list is returned
C8_Witness ==
  /\ HasInputs
  /\ location.lat = LatA
  /\ assignedOffices = <<OffN, OffS>>
  /\ DistanceTo(OffN) = DistanceTo(OffS)
  /\ view.nearestOffice = OffN

\* C9: the threshold applied for the nearest office is its requiredDistance
\* whenever it defines one, 0 included, and 1000 m only when it defines none.
C9_ThresholdIsRequiredDistance ==
  HasInputs =>
    view.requiredGeofenceDistance =
      (IF view.nearestOffice.requiredDistance = Null
       THEN DefaultThreshold
       ELSE view.nearestOffice.requiredDistance)

\* an office with requiredDistance 0, 846 m away, is shown as within range
C9_Witness ==
  /\ HasInputs
  /\ view.nearestOffice.requiredDistance = Zero
  /\ view.requiredGeofenceDistance = DefaultThreshold
  /\ view.distance # Zero
  /\ view.isWithinRange

Returned == {d \in distances : d.distance # Null}

\* C12: calculateDistance of a coordinate to itself is 0, for every coordinate.
C12_DistanceToSelfIsZero ==
  \A d \in Returned : (d.lat1 = d.lat2 /\ d.lon1 = d.lon2) => d.distance = Zero

\* calculateDistance(13, 80, 13, 80) has returned 0
C12_Witness ==
  \E d \in Returned :
    d.lat1 = LatA /\ d.lon1 = LonA /\ d.lat2 = LatA /\ d.lon2 = LonA /\ d.distance = Zero

\* C13: calculateDistance is symmetric: exchanging the two coordinates gives
\* the same distance.
C13_DistanceSymmetric ==
  \A d \in Returned, r \in Returned :
    (d.lat1 = r.lat2 /\ d.lon1 = r.lon2 /\ d.lat2 = r.lat1 /\ d.lon2 = r.lon1)
      => d.distance = r.distance

\* the two calls between (13, 80) and (-33, -70) have returned the same
\* non-zero distance
C13_Witness ==
  \E d \in Returned, r \in Returned :
    /\ d.lat1 = LatA /\ d.lon1 = LonA
    /\ d.lat2 = FromInt[-33] /\ d.lon2 = FromInt[-70]
    /\ r.lat1 = d.lat2 /\ r.lon1 = d.lon2 /\ r.lat2 = d.lat1 /\ r.lon2 = d.lon1
    /\ d.distance = r.distance
    /\ d.distance # Zero

\* C14: calculateDistance(0, 0, 0, 1), one degree of longitude along the
\* equator, is 111,195 m within 1 m.
C14_OneDegreeAtEquator ==
  \A d \in Returned :
    (d.lat1 = Zero /\ d.lon1 = Zero /\ d.lat2 = Zero /\ d.lon2 = One) =>
      /\ FLeq(FromInt[111194], d.distance)
      /\ FLeq(d.distance, FromInt[111196])

\* calculateDistance(0, 0, 0, 1) has returned a value between 111,194 and 111,196
C14_Witness ==
  \E d \in Returned :
    /\ d.lat1 = Zero /\ d.lon1 = Zero /\ d.lat2 = Zero /\ d.lon2 = One
    /\ FLt(FromInt[111194], d.distance)
    /\ FLt(d.distance, FromInt[111196])

NoOfficesMessage == "No offices assigned to your account."

\* the endpoint's successful answer with an empty list
EmptyAnswer == [ok |-> TRUE, data |-> << >>]

\* the part of C15 about the answer itself: assignedOffices is set to empty,
\* the error text is 'No offices assigned to your account.',
\* fetchAssignedOffices returns normally, no request is sent and the main
\* content is not shown
EmptyAnswerHandled ==
  [][\A i \in BagToSet(tasks) :
       (i.fetch = "pending" /\ FetchAnswer(i, EmptyAnswer) /\ last' = Quiet) =>
         /\ assignedOffices' = << >>
         /\ error' = NoOfficesMessage
         /\ sentCount' = sentCount
         /\ view'.screen # "main"]_vars

\* C15: when the assigned-offices endpoint answers successfully with an empty
\* list, assignedOffices is set to empty, the user is told 'No offices
\* assigned to your account.' and nothing is thrown; and from then on no
\* attendance request is sent for as long as assignedOffices is empty.
C15_EmptyOfficeList ==
  /\ EmptyAnswerHandled
  /\ [][(error = NoOfficesMessage /\ Len(assignedOffices) = 0) =>
          sentCount' = sentCount]_vars

\* after the empty answer the error screen shows the text, with a location stored
C15_Witness ==
  /\ view.screen = "error"
  /\ error = NoOfficesMessage
  /\ Len(assignedOffices) = 0
  /\ location # Null
  /\ sentCount = 0

\* the error texts of getLocation for a refused permission and for a throw
LocationFailureMessages ==
  { "Location permission denied.",
    "Unable to get location. Please check your GPS settings." }

\* C16: every failure of getLocation, the permission refused after the
\* request or the positioning call throwing, is reported as an error text:
\* getLocation returns normally (its call is finished, the error is its own
\* text and not the one of initializeData's catch), and right after it
\* location is null and error is not empty.
C16_LocationFailureReported ==
  [][\A i \in BagToSet(tasks) :
       ( \/ i.loc = "req" /\ LocRequest(i) /\ locationPermissionStatus' # "granted"
         \/ i.loc = "pos" /\ LocationFails(i) /\ last' = Quiet )
       => /\ location' = Null
          /\ error' # NoError
          /\ error' \in LocationFailureMessages
          /\ [i EXCEPT !.loc = "done"] \in BagToSet(tasks') \/ TaskDone([i EXCEPT !.loc = "done"])
          /\ sentCount' = sentCount]_vars

\* the positioning call threw after the offices were stored: no location is
\* stored and the error screen shows the text
C16_Witness ==
  /\ error = "Unable to get location. Please check your GPS settings."
  /\ location = Null
  /\ Len(assignedOffices) > 0
  /\ tasks = EmptyBag
  /\ view.screen = "error"

\* the number of digits in a text
DigitCount(s) == Cardinality({i \in 1..Len(s) : s[i] \in Digit})

\* the name and the email address of the form are valid and plotId is present
OtherFieldsValid ==
  /\ Len(Trim(bookVisit.form.name)) > 0
  /\ EmailRegexTest(bookVisit.form.email)
  /\ ~PlotIdMissing(bookVisit.plotId)

C18_StoredAccuracyBounded ==
  location # Null =>
    \/ location.accuracy = Null
    \/ location.accuracy = Zero
    \/ FLeq(location.accuracy, FromInt[1500])

\* a fix of accuracy 2000 was refused by one call of getLocation and a fix of
\* accuracy 1500 stored by another
C18_Witness ==
  /\ error = LowAccuracyMessage
  /\ location # Null
  /\ location.accuracy = FromInt[1500]

\* C19: markOnDutyAttendance is not gated by the geofence: with a user, a
\* location and at least one office it sends an ON_DUTY request for the
\* stored location whatever the distance to the nearest office, and it
\* neither checks the accuracy, nor reads or writes lastTap, nor opens a dialog.
C19_OnDutyNotGated ==
  [][(markOnDutyAttendance /\ user # NoUser /\ location # Null
        /\ Len(assignedOffices) > 0) =>
       /\ posts' = Append(posts, [clerkId        |-> user.id,
                                  latitude       |-> location.lat,
                                  longitude      |-> location.lng,
                                  accuracy       |-> location.accuracy,
                                  attendanceType |-> "ON_DUTY"])
       /\ sentCount' = sentCount + 1
       /\ marking'
       /\ dialog' = Null
       /\ lastTap' = lastTap]_vars

\* out of range of the nearest office, an ON_DUTY request is in flight and no
\* dialog was opened
C19_Witness ==
  /\ HasInputs
  /\ ~view.isWithinRange
  /\ dialog = Null
  /\ Len(posts) = 1
  /\ posts[1].attendanceType = "ON_DUTY"
  /\ lastTap = 0

C21_MarkingCleared ==
  /\ marking ~> ~marking
  /\ [][( \/ markOnDutyAttendance /\ Refused(Closure)
          \/ dialog # Null /\ Refused(dialog.closure) /\ DialogConfirm ) =>
         /\ marking' = marking
         /\ posts' = posts
         /\ sentCount' = sentCount
         /\ last'.alert = "Error: Unable to mark attendance. Please try again."]_vars

\* the request failed and marking is false again
C21_Witness ==
  /\ sentCount = 1
  /\ Len(posts) = 0
  /\ ~marking
  /\ last.alert = "Network Error"

C23_Debounce ==
  [][\A t \in ClockReadings :
       markAttendanceAt(t) =>
         /\ t - lastTap < 1500 =>
              /\ last'.alert = ""
              /\ UNCHANGED <<isLoaded, user, location, assignedOffices, loading, marking,
                             refreshing, error, locationPermissionStatus, lastTap, tasks,
                             posts, dialog, view, sentCount, authEvents>>
         /\ t - lastTap >= 1500 =>
              /\ lastTap' = t
              /\ \/ last'.alert # ""
                 \/ dialog' # Null
                 \/ sentCount' = sentCount + 1]_vars

\* a second call was accepted exactly 1500 ms after the first accepted one
C23_Witness ==
  /\ lastTap = 3000
  /\ user # NoUser
  /\ location # Null

\* C24: once authentication has loaded with no signed-in user, the screen
\* leaves the 'Loading workspace...' state and shows the 'Sign In Required'
\* state: when no call of initializeData is in progress, the loading flag is
\* false and the sign-in state is what is rendered.
C24_SignInShown ==
  (isLoaded /\ user = NoUser /\ tasks = EmptyBag) =>
    (~loading /\ view.screen = "signin")

\* the sign-in state, shown after a signed-in user's load has finished and
\* the user has signed out
C24_Witness ==
  /\ isLoaded
  /\ user = NoUser
  /\ tasks = EmptyBag
  /\ view.screen = "signin"

ScannedWithId ==
  { <<<<"{", "\"", "i", "d", "\"", ":", "\"", "v", "r", "1", "\"", "}">>,
      <<"v", "r", "1">>>>,
    <<<<"{", "\"", "i", "d", "\"", ":", "\"", "v", "r", "2", "\"", "}">>,
      <<"v", "r", "2">>>>,
    <<<<"{", "\"", "i", "d", "\"", ":", "4", "2", "}">>,
      <<"4", "2">>>>,
    <<<<"{", "\"", "i", "d", "\"", ":", "-", "7", "}">>,
      <<"-", "7">>>>,
    <<<<"{", "\"", "i", "d", "\"", ":", "t", "r", "u", "e", "}">>,
      <<"t", "r", "u", "e">>>>,
    <<<<" ", "{", "\"", "i", "d", "\"", " ", ":", " ", "\"", "v", "r", "1", "\"", "}", "\n">>,
      <<"v", "r", "1">>>>,
    <<<<"{", "\"", "i", "d", "\"", ":", "\"", "v", "r", "1", "\"", ",", "\"", "i", "d", "\"", ":", "\"", "v", "r", "2", "\"", "}">>,
      <<"v", "r", "2">>>>,
    <<<<"{", "\"", "n", "a", "m", "e", "\"", ":", "\"", "x", "\"", ",", "\"", "i", "d", "\"", ":", "\"", "v", "r", "2", "\"", "}">>,
      <<"v", "r", "2">>>>,
    <<<<"{", "\"", "i", "d", "\"", ":", "{", "\"", "n", "\"", ":", "1", "}", "}">>,
      <<"[", "o", "b", "j", "e", "c", "t", " ", "O", "b", "j", "e", "c", "t", "]">>>>,
    <<<<"{", "\"", "i", "d", "\"", ":", "[", "1", ",", "2", "]", "}">>,
      <<"1", ",", "2">>>>,
    <<<<"{", "\"", "i", "d", "\"", ":", "\"", "a", "/", "b", "\"", "}">>,
      <<"a", "/", "b">>>>,
    <<<<"{", "\"", "i", "d", "\"", ":", "\"", "a", "\\", "\"", "b", "\"", "}">>,
      <<"a", "\"", "b">>>> }

\* C26: every request of the scanner is a PATCH of
\* https://90-dph.vercel.app/api/visit-requests/{id}/complete, where id is
\* parsed.id when the scanned text is JSON with a truthy id and the scanned
\* text itself otherwise; the request for which the scanner was opened
\* plays no part.
C26_ScannedId ==
  \A i \in 1..Len(scanner.sent) :
    LET request == scanner.sent[i]
        withId == {p \in ScannedWithId : p[1] = request.data}
        id == IF withId = {} THEN request.data ELSE (CHOOSE p \in withId : TRUE)[2]
    IN /\ request.method = "PATCH"
       /\ request.url = <<"h", "t", "t", "p", "s", ":", "/", "/", "9", "0", "-", "d", "p", "h", ".", "v", "e", "r", "c", "e", "l", ".", "a", "p", "p">>
                        \o <<"/", "a", "p", "i", "/", "v", "i", "s", "i", "t", "-", "r", "e", "q", "u", "e", "s", "t", "s", "/">>
                        \o id
                        \o <<"/", "c", "o", "m", "p", "l", "e", "t", "e">>

\* the scanner was opened for vr1; a code holding the id vr2 and a code that
\* is plain text have been scanned
C26_Witness ==
  /\ scanner.scannerRequestId = <<"v", "r", "1">>
  /\ Len(scanner.sent) = 2
  /\ scanner.sent[1].data = <<"{", "\"", "i", "d", "\"", ":", "\"", "v", "r", "2", "\"", "}">>
  /\ scanner.sent[2].data = <<"v", "r", "2">>
  /\ scanner.sent[1].url = scanner.sent[2].url
  /\ scanner.alert.title = "Success"

====
